---- MODULE Spec2Model ----
(***************************************************************************)
(* Model of generate_prompts.py: the main loop that reads prompts.csv line *)
(* by line, synthesize_prompt (one HTTP request per entry, then write the  *)
(* temporary file, run ffmpeg, remove the temporary file, print) and       *)
(* convert_to_ulaw.  Strings are sequences of one-character strings.       *)
(***************************************************************************)
EXTENDS Integers, Sequences, FiniteSets, TLC

\* ------------------------------------------------------------------------
\* Bounds of the model
\* ------------------------------------------------------------------------
\* longest arbitrary line (without its newline) of a one-line input file
MaxLineLen == 3
\* most lines of an input file built from SampleLines
MaxLines == 3

\* ------------------------------------------------------------------------
\* Characters and Python string primitives
\* ------------------------------------------------------------------------
QUOTE == "\""
COMMA == ","
NEWLINE == "\n"
\* the characters str.strip() removes when called without an argument
Whitespace == {" ", "\t", "\n", "\r"}
\* the characters arbitrary lines are built from
Alphabet == {"a", COMMA, QUOTE, " "}

RECURSIVE LStrip(_, _)
\* str.lstrip(chars): drop every leading character that is in chars
LStrip(s, chars) ==
    IF s # <<>> /\ Head(s) \in chars THEN LStrip(Tail(s), chars) ELSE s

RECURSIVE RStrip(_, _)
\* str.rstrip(chars): drop every trailing character that is in chars
RStrip(s, chars) ==
    IF s # <<>> /\ s[Len(s)] \in chars
    THEN RStrip(SubSeq(s, 1, Len(s) - 1), chars)
    ELSE s

\* str.strip(chars): the leading characters go, then the trailing ones (the
\* intermediate string l is computed once)
Strip(s, chars) == CHOOSE r \in {RStrip(l, chars) : l \in {LStrip(s, chars)}} : TRUE

\* c in s
Contains(s, c) == \E k \in 1..Len(s) : s[k] = c

\* str.find(c) for a string that contains c: the lowest index of c
Find(s, c) == CHOOSE k \in 1..Len(s) : s[k] = c /\ \A j \in 1..(k - 1) : s[j] # c

\* str.rfind(c) for a string that contains c: the highest index of c
RFind(s, c) == CHOOSE k \in 1..Len(s) : s[k] = c /\ \A j \in (k + 1)..Len(s) : s[j] # c

\* a split at the last comma, as line.rsplit(",", 1) would do
SplitLastComma(s) ==
    <<SubSeq(s, 1, RFind(s, COMMA) - 1), SubSeq(s, RFind(s, COMMA) + 1, Len(s))>>

\* line.split(",", 1) for a line that contains a comma: <<name, text>>
SplitFirstComma(s) ==
    <<SubSeq(s, 1, Find(s, COMMA) - 1), SubSeq(s, Find(s, COMMA) + 1, Len(s))>>

\* removal of one enclosing quote at each end only
StripOneQuoteLayer(s) ==
    LET a == IF s # <<>> /\ Head(s) = QUOTE THEN Tail(s) ELSE s
    IN  IF a # <<>> /\ a[Len(a)] = QUOTE THEN SubSeq(a, 1, Len(a) - 1) ELSE a

\* a cleaning step that removes one enclosing quote at each end only
CleanLineOneLayer(raw) ==
    CHOOSE r \in {StripOneQuoteLayer(t) : t \in {Strip(raw, Whitespace)}} : TRUE

\* line = line.strip().strip('"'): t is the result of the first strip
CleanLine(raw) ==
    CHOOSE r \in {Strip(t, {QUOTE}) : t \in {Strip(raw, Whitespace)}} : TRUE

\* ------------------------------------------------------------------------
\* Configuration and paths
\* ------------------------------------------------------------------------
OUTPUT_DIR == <<"o", "u", "t", "p", "u", "t", "_", "w", "a", "v">>
TempSuffix == <<"_", "t", "e", "m", "p", ".", "w", "a", "v">>
FinalSuffix == <<".", "w", "a", "v">>

\* os.path.join(a, b) for a relative b without separators
PathJoin(a, b) == a \o <<"/">> \o b

\* temp_path = os.path.join(OUTPUT_DIR, f"{filename}_temp.wav")
TempPath(filename) == PathJoin(OUTPUT_DIR, filename \o TempSuffix)

\* final_path = os.path.join(OUTPUT_DIR, f"{filename}.wav")
FinalPath(filename) == PathJoin(OUTPUT_DIR, filename \o FinalSuffix)

\* ------------------------------------------------------------------------
\* The remote API and the transcoder
\* ------------------------------------------------------------------------
\* the one status synthesize_prompt treats as success
HTTP_OK == 200
\* statuses the API is taken to answer with: success, unauthorized
Statuses == {HTTP_OK, 401}

\* the body of a response: linear16 audio of the text on 200, an error
\* payload otherwise
ResponseBody(status, text) ==
    IF status = HTTP_OK THEN [enc |-> "linear16", speech |-> text]
    ELSE [enc |-> "text", speech |-> <<"unauthorized">>]

NoResponse == [status |-> 0, body |-> [enc |-> "none", speech |-> <<>>]]

\* how a run of ffmpeg can end: converted, failed before it opened the
\* destination, failed after it opened the destination
FfmpegOutcomes == {"ok", "fail", "partial"}

\* the set of files after `ffmpeg -y -i input_path ... output_path`
FfmpegResult(d, input_path, output_path, outcome) ==
    IF outcome = "ok"
    THEN [p \in DOMAIN d \cup {output_path} |->
            IF p = output_path THEN [enc |-> "mulaw", speech |-> d[input_path].speech]
            ELSE d[p]]
    ELSE IF outcome = "partial"
    THEN [p \in DOMAIN d \cup {output_path} |->
            IF p = output_path THEN [enc |-> "truncated", speech |-> d[input_path].speech]
            ELSE d[p]]
    ELSE d

\* open(path, "wb").write(content)
WriteFile(d, path, content) ==
    [p \in DOMAIN d \cup {path} |-> IF p = path THEN content ELSE d[p]]

\* os.remove(path)
RemoveFile(d, path) == [p \in DOMAIN d \ {path} |-> d[p]]

\* ------------------------------------------------------------------------
\* Input files
\* ------------------------------------------------------------------------
RECURSIVE SeqsUpTo(_, _)
\* all sequences over S of length at most n
SeqsUpTo(S, n) ==
    IF n = 0 THEN {<<>>}
    ELSE LET shorter == SeqsUpTo(S, n - 1)
         IN  shorter \cup {Append(s, x) : s \in {t \in shorter : Len(t) = n - 1}, x \in S}

\* lines of prompts.csv (without the newline) that the multi-line inputs use
SampleLines ==
    { <<"a", ",", "h", "i">>,
      <<"a", "_", "t", "e", "m", "p", ",", "h", "i">>,
      <<"\"", "a", ",", " ", "b", ",", " ", "c", "\"">>,
      <<"z", "z">> }

\* the files the model runs on: one arbitrary line, or a few sample lines;
\* iterating a file yields each line with its newline
InputFiles ==
    {<<l \o <<NEWLINE>> >> : l \in SeqsUpTo(Alphabet, MaxLineLen)}
        \cup {[k \in 1..Len(f) |-> f[k] \o <<NEWLINE>>] : f \in SeqsUpTo(SampleLines, MaxLines)}

\* ------------------------------------------------------------------------
\* State
\* ------------------------------------------------------------------------
VARIABLES
    lines,        \* the lines of INPUT_CSV, in file order
    i,            \* the number of lines the for loop has taken from the file
    pc,           \* the statement the program is at
    line,         \* the local `line` of the loop body, cleaned
    filename,     \* argument of synthesize_prompt
    prompt_text,  \* argument of synthesize_prompt
    response,     \* the response of requests.post
    dir,          \* the files of OUTPUT_DIR: path -> content
    console,      \* the lines printed so far
    handed,       \* the calls of synthesize_prompt so far, in order
    log           \* the statements with an outside effect executed so far

vars == <<lines, i, pc, line, filename, prompt_text, response, dir, console, handed, log>>

Event(ev, arg) == [ev |-> ev, n |-> Len(handed), arg |-> arg]

Init ==
    /\ lines \in InputFiles
    /\ i = 0
    /\ pc = "loop"
    /\ line = <<>>
    /\ filename = <<>>
    /\ prompt_text = <<>>
    /\ response = NoResponse
    /\ dir = <<>>
    /\ console = <<>>
    /\ handed = <<>>
    /\ log = <<>>

\* a loop that takes the lines from the end of the file
ReadEntryReversed ==
    /\ pc = "loop"
    /\ i < Len(lines)
    /\ \E cleaned \in {CleanLine(lines[Len(lines) - i])} :
         /\ Contains(cleaned, COMMA)
         /\ \E parts \in {SplitFirstComma(cleaned)} :
              \E name \in {Strip(parts[1], Whitespace)}, text \in {Strip(parts[2], Whitespace)} :
                 /\ line' = cleaned
                 /\ filename' = name
                 /\ prompt_text' = text
                 /\ handed' = Append(handed, [filename |-> name, text |-> text,
                                              lineno |-> Len(lines) - i])
    /\ i' = i + 1
    /\ pc' = "post"
    /\ UNCHANGED <<lines, response, dir, console, log>>

\* lines 81-91, a line with a comma: clean, split, strip, call synthesize_prompt
ReadEntry ==
    /\ pc = "loop"
    /\ i < Len(lines)
    /\ \E cleaned \in {CleanLine(lines[i + 1])} :
         /\ Contains(cleaned, COMMA)
         /\ \E parts \in {SplitFirstComma(cleaned)} :
              \E name \in {Strip(parts[1], Whitespace)}, text \in {Strip(parts[2], Whitespace)} :
                 /\ line' = cleaned
                 /\ filename' = name
                 /\ prompt_text' = text
                 /\ handed' = Append(handed, [filename |-> name, text |-> text,
                                              lineno |-> i + 1])
    /\ i' = i + 1
    /\ pc' = "post"
    /\ UNCHANGED <<lines, response, dir, console, log>>

\* lines 81-86, a line without a comma: nothing is done with it
SkipLine ==
    /\ pc = "loop"
    /\ i < Len(lines)
    /\ \E cleaned \in {CleanLine(lines[i + 1])} :
         /\ ~Contains(cleaned, COMMA)
         /\ line' = cleaned
    /\ i' = i + 1
    /\ pc' = "loop"
    /\ UNCHANGED <<lines, filename, prompt_text, response, dir, console, handed, log>>

\* line 81, the file is exhausted: the with block and the script end
EndOfFile ==
    /\ pc = "loop"
    /\ i = Len(lines)
    /\ pc' = "done"
    /\ UNCHANGED <<lines, i, line, filename, prompt_text, response, dir, console, handed, log>>

\* line 54: response = requests.post(url, json={"text": prompt_text}, ...)
PostRequest ==
    /\ pc = "post"
    /\ \E status \in Statuses :
         /\ response' = [status |-> status, body |-> ResponseBody(status, prompt_text)]
         /\ log' = Append(log, Event("post", status))
    /\ pc' = "status"
    /\ UNCHANGED <<lines, i, line, filename, prompt_text, dir, console, handed>>

\* lines 57-64: status 200, the response content is written to temp_path
WriteTemp ==
    /\ pc = "status"
    /\ response.status = HTTP_OK
    /\ dir' = WriteFile(dir, TempPath(filename), response.body)
    /\ log' = Append(log, Event("write", TempPath(filename)))
    /\ pc' = "convert"
    /\ UNCHANGED <<lines, i, line, filename, prompt_text, response, console, handed>>

\* lines 67 and 70 in the other order: temp_path is removed, then ffmpeg
\* is run on it and finds no input
ConvertAfterRemove ==
    /\ pc = "convert"
    /\ dir' = RemoveFile(dir, TempPath(filename))
    /\ log' = Append(Append(log, Event("remove", TempPath(filename))), Event("ffmpeg", "fail"))
    /\ pc' = "print"
    /\ UNCHANGED <<lines, i, line, filename, prompt_text, response, console, handed>>

\* a convert_to_ulaw that raises when the child process fails (check=True)
ConvertToUlawRaising ==
    /\ pc = "convert"
    /\ \E outcome \in FfmpegOutcomes :
         /\ dir' = FfmpegResult(dir, TempPath(filename), FinalPath(filename), outcome)
         /\ log' = Append(log, Event("ffmpeg", outcome))
         /\ pc' = IF outcome = "ok" THEN "remove" ELSE "raised"
    /\ UNCHANGED <<lines, i, line, filename, prompt_text, response, console, handed>>

\* line 67 and lines 22-34: convert_to_ulaw(temp_path, final_path); the
\* outcome of the child process is not looked at
ConvertToUlaw ==
    /\ pc = "convert"
    /\ \E outcome \in FfmpegOutcomes :
         /\ dir' = FfmpegResult(dir, TempPath(filename), FinalPath(filename), outcome)
         /\ log' = Append(log, Event("ffmpeg", outcome))
    /\ pc' = "remove"
    /\ UNCHANGED <<lines, i, line, filename, prompt_text, response, console, handed>>

\* line 70: os.remove(temp_path)
RemoveTemp ==
    /\ pc = "remove"
    /\ dir' = RemoveFile(dir, TempPath(filename))
    /\ log' = Append(log, Event("remove", TempPath(filename)))
    /\ pc' = "print"
    /\ UNCHANGED <<lines, i, line, filename, prompt_text, response, console, handed>>

\* line 73: print(f"Saved Studio-ready: {final_path}")
PrintSaved ==
    /\ pc = "print"
    /\ console' = Append(console, [kind |-> "saved", name |-> FinalPath(filename),
                                   status |-> 0, text |-> <<>>])
    /\ log' = Append(log, Event("print", "saved"))
    /\ pc' = "loop"
    /\ UNCHANGED <<lines, i, line, filename, prompt_text, response, dir, handed>>

\* an error branch that ends the script (sys.exit after the message)
PrintErrorThenExit ==
    /\ pc = "status"
    /\ response.status # HTTP_OK
    /\ console' = Append(console, [kind |-> "error", name |-> filename,
                                   status |-> response.status,
                                   text |-> response.body.speech])
    /\ log' = Append(log, Event("print", "error"))
    /\ pc' = "done"
    /\ UNCHANGED <<lines, i, line, filename, prompt_text, response, dir, handed>>

\* lines 74-76: any other status, print the error and return
PrintError ==
    /\ pc = "status"
    /\ response.status # HTTP_OK
    /\ console' = Append(console, [kind |-> "error", name |-> filename,
                                   status |-> response.status,
                                   text |-> response.body.speech])
    /\ log' = Append(log, Event("print", "error"))
    /\ pc' = "loop"
    /\ UNCHANGED <<lines, i, line, filename, prompt_text, response, dir, handed>>

Next ==
    \/ ReadEntry
    \/ SkipLine
    \/ EndOfFile
    \/ PostRequest
    \/ WriteTemp
    \/ ConvertToUlaw
    \/ RemoveTemp
    \/ PrintSaved
    \/ PrintError

Spec == Init /\ [][Next]_vars

\* the interpreter runs the next statement as long as there is one
FairSpec == Spec /\ WF_vars(Next)

\* ------------------------------------------------------------------------
\* Reading the history
\* ------------------------------------------------------------------------
Entries == 1..Len(handed)

\* the events of the n-th call of synthesize_prompt, in order
EventsOf(n) == SelectSeq(log, LAMBDA e : e.n = n)

EventNames(n) == [k \in 1..Len(EventsOf(n)) |-> EventsOf(n)[k].ev]

HasEvent(n, ev) == \E k \in 1..Len(log) : log[k].n = n /\ log[k].ev = ev

ArgOf(n, ev) == log[CHOOSE k \in 1..Len(log) : log[k].n = n /\ log[k].ev = ev].arg

\* the n-th entry got status 200
Synthesized(n) == HasEvent(n, "post") /\ ArgOf(n, "post") = HTTP_OK

\* the n-th entry got another status
SynthesisFailed(n) == HasEvent(n, "post") /\ ArgOf(n, "post") # HTTP_OK

\* ffmpeg converted the n-th entry
Transcoded(n) == HasEvent(n, "ffmpeg") /\ ArgOf(n, "ffmpeg") = "ok"

\* ffmpeg ran for the n-th entry and failed
TranscodeFailed(n) == HasEvent(n, "ffmpeg") /\ ArgOf(n, "ffmpeg") # "ok"

\* synthesize_prompt has returned for the n-th entry
Finished(n) == HasEvent(n, "print")

IsPrefix(s, t) == Len(s) <= Len(t) /\ s = SubSeq(t, 1, Len(s))

LastOf(s) == s[Len(s)]

\* the raw lines that hold a comma, by line number
CommaLines == {k \in 1..Len(lines) : Contains(lines[k], COMMA)}

\* ------------------------------------------------------------------------
\* C1
\* ------------------------------------------------------------------------
\* C1: in every reachable state, every file at the final path {identifier}.wav
\* of a handed entry corresponds to exactly one entry whose synthesis and
\* transcoding both succeeded, and an entry whose transcoding failed has no
\* file at its final path.
C1_FinalArtifactsFromSuccess ==
    /\ \A p \in DOMAIN dir :
         (\E n \in Entries : p = FinalPath(handed[n].filename))
            => Cardinality({n \in Entries : /\ p = FinalPath(handed[n].filename)
                                            /\ Synthesized(n)
                                            /\ Transcoded(n)}) = 1
    /\ \A n \in Entries :
         TranscodeFailed(n) => FinalPath(handed[n].filename) \notin DOMAIN dir

\* ------------------------------------------------------------------------
\* C2
\* ------------------------------------------------------------------------
\* C2: when the response has a status other than 200, the step that handles
\* it leaves the output directory unchanged, prints exactly one error notice
\* with the identifier, the status code and the response body, and returns to
\* the loop at the same file position; and when the script ends every line
\* with a comma has been handed to synthesize_prompt.
C2_FailureWritesNothingAndContinues ==
    [][ /\ (pc = "status" /\ response.status # HTTP_OK)
            => /\ dir' = dir
               /\ console' = Append(console, [kind |-> "error", name |-> filename,
                                              status |-> response.status,
                                              text |-> response.body.speech])
               /\ pc' = "loop"
               /\ i' = i
        /\ pc' = "done"
            => /\ {handed'[n].lineno : n \in 1..Len(handed')} = CommaLines
               /\ \A n \in 1..Len(handed') :
                    \E k \in 1..Len(log') : log'[k].n = n /\ log'[k].ev = "post"
      ]_vars

\* C2 witness: a failed entry between two converted ones: the directory held a file when
\* the error was handled and the loop went on to the next entry
C2_Witness ==
    /\ pc = "done"
    /\ Len(handed) = 3
    /\ Transcoded(1) /\ SynthesisFailed(2) /\ Transcoded(3)
    /\ console[2].kind = "error" /\ console[2].status = 401

\* ------------------------------------------------------------------------
\* C3
\* ------------------------------------------------------------------------
\* C3: once synthesize_prompt has finished an entry whose status was 200, the
\* directory holds {identifier}.wav and not {identifier}_temp.wav; and when
\* the batch is complete no entry's {identifier}_temp.wav is left.
C3_SuccessLeavesFinalOnly ==
    /\ (log # <<>> /\ LastOf(log).ev = "print" /\ LastOf(log).arg = "saved"
            /\ LastOf(log).n = Len(handed))
          => /\ FinalPath(filename) \in DOMAIN dir
             /\ TempPath(filename) \notin DOMAIN dir
    /\ pc = "done"
          => \A n \in Entries : TempPath(handed[n].filename) \notin DOMAIN dir

\* ------------------------------------------------------------------------
\* C4
\* ------------------------------------------------------------------------
\* C4: the steps of one entry occur in the order request, write temp, run
\* ffmpeg, remove temp, print (or request, print on an error); ffmpeg starts
\* with the temporary file in place holding the response content, the file is
\* still there when ffmpeg has exited, and the notice is printed after the
\* removal.
C4_StepOrder ==
    /\ \A n \in Entries :
         \/ IsPrefix(EventNames(n), <<"post", "write", "ffmpeg", "remove", "print">>)
         \/ EventNames(n) = <<"post", "print">>
    /\ pc = "convert" => /\ TempPath(filename) \in DOMAIN dir
                         /\ dir[TempPath(filename)] = response.body
    /\ pc = "remove" => TempPath(filename) \in DOMAIN dir
    /\ pc = "print" => TempPath(filename) \notin DOMAIN dir

\* C4 witness: an entry went through all five steps
C4_Witness ==
    \E n \in Entries :
        EventNames(n) = <<"post", "write", "ffmpeg", "remove", "print">>

\* ------------------------------------------------------------------------
\* C5
\* ------------------------------------------------------------------------
\* C5: a line without a comma produces no entry; a line with a comma produces
\* exactly one entry, split at the first comma of the cleaned line: the
\* identifier is the whitespace-trimmed part before it (so it holds no comma)
\* and the text the whitespace-trimmed rest.
C5_SplitAtFirstComma ==
    [][ i' = i + 1 =>
          LET raw == lines[i + 1]
              c == line'
          IN  /\ ~Contains(raw, COMMA) => (handed' = handed /\ pc' = "loop")
              /\ Contains(raw, COMMA) =>
                   /\ Len(handed') = Len(handed) + 1
                   /\ SubSeq(handed', 1, Len(handed)) = handed
                   /\ pc' = "post"
                   /\ \E k \in 1..Len(c) :
                        /\ c[k] = COMMA
                        /\ \A j \in 1..(k - 1) : c[j] # COMMA
                        /\ LastOf(handed').filename = Strip(SubSeq(c, 1, k - 1), Whitespace)
                        /\ LastOf(handed').text = Strip(SubSeq(c, k + 1, Len(c)), Whitespace)
                        /\ filename' = LastOf(handed').filename
                        /\ prompt_text' = LastOf(handed').text
                   /\ ~Contains(LastOf(handed').filename, COMMA)
      ]_vars

\* C5 witness: the line "a, b, c" in quotes was read: identifier a, text "b, c"
C5_Witness ==
    /\ pc = "post"
    /\ filename = <<"a">>
    /\ prompt_text = <<"b", ",", " ", "c">>

\* ------------------------------------------------------------------------
\* C6
\* ------------------------------------------------------------------------
\* what the loop body makes of a cleaned line: <<identifier, text>>, or <<>>
EntryOf(cleaned) ==
    IF Contains(cleaned, COMMA)
    THEN LET k == CHOOSE m \in 1..Len(cleaned) :
                     cleaned[m] = COMMA /\ \A j \in 1..(m - 1) : cleaned[j] # COMMA
         IN  <<Strip(SubSeq(cleaned, 1, k - 1), Whitespace),
               Strip(SubSeq(cleaned, k + 1, Len(cleaned)), Whitespace)>>
    ELSE <<>>

\* C6 as stated: the reader trims whitespace and removes exactly one layer of
\* enclosing quotes (at most one leading and one trailing quote), and further
\* quotes stay in the identifier or text.
C6_OneLayerRemoved ==
    (i >= 1 /\ pc = "post")
        => <<filename, prompt_text>> = EntryOf(StripOneQuoteLayer(Strip(lines[i], Whitespace)))

\* C6 amended: the reader trims whitespace and then removes every leading and
\* every trailing quote: the cleaned line is the trimmed line without a run of
\* quotes at each end and neither starts nor ends with a quote, so only quotes
\* inside remain; and the trimmed line wrapped in one more pair of quotes is
\* cleaned to the same line, hence gives the same entry.
C6_AllEnclosingQuotesRemoved ==
    i >= 1 =>
        LET t == Strip(lines[i], Whitespace)
        IN  /\ line = <<>> \/ (Head(line) # QUOTE /\ LastOf(line) # QUOTE)
            /\ \E a \in 0..Len(t) :
                 /\ a + Len(line) <= Len(t)
                 /\ SubSeq(t, a + 1, a + Len(line)) = line
                 /\ \A j \in 1..a : t[j] = QUOTE
                 /\ \A j \in (a + Len(line) + 1)..Len(t) : t[j] = QUOTE
            /\ CleanLine(<<QUOTE>> \o t \o <<QUOTE, NEWLINE>>) = line
            /\ pc = "post" => <<filename, prompt_text>> = EntryOf(line)

\* C6 witness: a line that starts with two quotes was read and gave an entry: both
\* quotes are gone
C6_Witness ==
    /\ i >= 1
    /\ pc = "post"
    /\ Len(lines[i]) >= 3
    /\ lines[i][1] = QUOTE
    /\ lines[i][2] = QUOTE
    /\ Contains(line, COMMA)
    /\ Head(line) # QUOTE

\* ------------------------------------------------------------------------
\* C7
\* ------------------------------------------------------------------------
\* C7: every entry handed to synthesize_prompt has a non-empty identifier and
\* a non-empty text.
C7_EntriesNonEmpty ==
    \A n \in Entries : handed[n].filename # <<>> /\ handed[n].text # <<>>

\* ------------------------------------------------------------------------
\* C8
\* ------------------------------------------------------------------------
\* the output directory of a run on the n-th entry alone, with the status and
\* the ffmpeg outcome the entry had
DirAlone(n) ==
    IF Synthesized(n)
    THEN LET e == handed[n]
             written == WriteFile(<<>>, TempPath(e.filename), ResponseBody(HTTP_OK, e.text))
             converted == FfmpegResult(written, TempPath(e.filename),
                                       FinalPath(e.filename), ArgOf(n, "ffmpeg"))
         IN  RemoveFile(converted, TempPath(e.filename))
    ELSE <<>>

\* C8: at the end of the batch each entry's final artifact is there, with the
\* content it has, exactly as in a run on that entry alone, whatever the
\* other entries are; and its notice is the one of that run.
C8_EntriesIndependent ==
    pc = "done" =>
        \A n \in Entries :
            LET p == FinalPath(handed[n].filename)
            IN  /\ (p \in DOMAIN dir) = (p \in DOMAIN DirAlone(n))
                /\ p \in DOMAIN dir => dir[p] = DirAlone(n)[p]
                /\ console[n].kind = (IF Synthesized(n) THEN "saved" ELSE "error")

\* ------------------------------------------------------------------------
\* C9
\* ------------------------------------------------------------------------
\* C9: the entries are handed over in increasing line order, each is requested
\* exactly once, the requests follow the same order, and a request is issued
\* only when the previous entry has printed its notice (after an error, or
\* after the removal of its temporary file); at the end every line with a
\* comma has had its request.
C9_SequentialInLineOrder ==
    LET posts == SelectSeq(log, LAMBDA e : e.ev = "post")
    IN  /\ \A n \in Entries : \A m \in Entries : n < m => handed[n].lineno < handed[m].lineno
        /\ \A n \in Entries : handed[n].lineno \in CommaLines /\ handed[n].lineno <= i
        /\ \A k \in 1..Len(posts) : posts[k].n = k
        /\ Len(posts) \in {Len(handed), Len(handed) - 1}
        /\ \A k \in 2..Len(log) :
             log[k].ev = "post" =>
                /\ log[k - 1].ev = "print"
                /\ log[k - 1].n = log[k].n - 1
                /\ log[k - 1].arg = "saved" => (k >= 3 /\ log[k - 2].ev = "remove")
        /\ pc = "done" => Len(posts) = Cardinality(CommaLines)

\* C9 witness: two entries were requested one after the other in a finished run
C9_Witness ==
    /\ pc = "done"
    /\ Len(handed) >= 2
    /\ Synthesized(1)
    /\ Finished(2)

====
